---- MODULE Spec2Model ----
(***************************************************************************)
(* The session handler of the smart cart (utils/firebase_handler.py,       *)
(* class FirebaseHandler): one in-memory shopping session that is written  *)
(* to a remote document store (Firestore collection 'sessions') and to a   *)
(* local directory of JSON files (offline_sessions/<id>.json), and its     *)
(* activity log, appended to the remote collection 'cartLogs' or kept as  *)
(* local files (offline_logs/log_<second>.json) for a later replay.        *)
(* With it the cart screen's check of the scale after an item was added or *)
(* removed (main.py, class CartScreen) and the load sensor with its        *)
(* background loops (models/load_sensor.py, class LoadSensor).             *)
(*                                                                         *)
(* Weights on the cart screen are integers in units of 0.1 kg, weights in  *)
(* the load sensor's monitor are integers in grams.                        *)
(*                                                                         *)
(* Prices are integers (cents).  A timestamp is represented by its form:   *)
(* "datetime" (a Python datetime held in memory), "SERVER_TIMESTAMP" (the  *)
(* Firestore sentinel held in memory), "isoformat" (the string written to  *)
(* a JSON file), "server" (the time the remote store filled in), "null".   *)
(***************************************************************************)
EXTENDS Integers, Sequences, FiniteSets, TLC

VARIABLES
    db,                 \* TRUE iff self.db holds a Firestore client
    online,             \* self.online
    offline_mode,       \* self.offline_mode
    active_session_id,  \* self.active_session_id
    current_session,    \* self.current_session
    sessions,           \* remote collection 'sessions': document id -> document
    offline_sessions,   \* local files offline_sessions/<id>.json: id -> content
    clock,              \* int(time.time()) as the handler read it last
    sessions_started,   \* number of start_shopping_session calls so far
    items_added,        \* number of add_item_to_session calls on a session so far
    started_id,         \* the id the caller got from its latest start_shopping_session
    offline_logs,       \* local files offline_logs/log_<second>.json: second -> entry
    cartLogs,           \* remote collection 'cartLogs', in the order of the appends
    events_logged,      \* number of log_cart_activity calls so far
    deferred,           \* the entries log_cart_activity has written to local files,
                        \* each with what became of its remote append
    last,               \* the latest call: operation, return value, what its writes did
    carts,              \* status of the cart's document in the remote collection
                        \* 'carts', "absent" when there is none
    sessions_saved,     \* number of save_session calls so far
    scale,              \* what weight_sensor.read_weight() returns now
    cart_items,         \* shopping_cart.items: item id -> weight of the product
    next_id,            \* shopping_cart.next_id
    removal_attrs,      \* self.pre_removal_weight and self.expected_weight_change
    removals,           \* the _complete_item_removal calls the Clock is to make
    checks,             \* the verify_weight_change calls the Clock is to make
    checked,            \* the verify_weight_change call the Clock made last
    hx,                 \* TRUE iff self.hx holds an HX711
    baseline,           \* self.baseline: the baselines taken so far, 0 for None
    is_running,         \* self.is_running, the run flag of the sampling loop
    reading_thread,     \* self.reading_thread: a thread of readers, 0 for None
    weight_readings,    \* self.weight_readings, the window of samples, grams
    readers,            \* the _reading_loop threads started so far: where each is
    estimate,           \* the load on the sensor against the baseline, grams
    monitoring,         \* self.monitoring, the run flag of the monitoring loop
    monitoring_thread,  \* self.monitoring_thread: a thread of monitors, 0 for None
    weight_history,     \* self.weight_history, grams
    last_stable_weight, \* self.last_stable_weight, grams
    monitors,           \* the _monitoring_loop threads started so far: where each is
    event,              \* the event the monitor reported last
    step,               \* the latest step of the estimate under a settled monitor,
                        \* the values fed and the events reported since
    tare_pc,            \* where the main thread is in tare
    was_running,        \* was_running of tare
    unlocked,           \* the shared fields the latest step read or wrote
                        \* without holding self.lock
    last_call           \* the latest call of the main thread on the sensor

vars == <<db, online, offline_mode, active_session_id, current_session, sessions,
          offline_sessions, clock, sessions_started, items_added, started_id,
          offline_logs, cartLogs, events_logged, deferred, last, carts,
          sessions_saved,
          scale, cart_items, next_id, removal_attrs, removals, checks, checked,
          hx, baseline, is_running, reading_thread, weight_readings, readers,
          estimate, monitoring, monitoring_thread, weight_history,
          last_stable_weight, monitors, event, step, tare_pc, was_running,
          unlocked, last_call>>

\* the state of the activity log
logvars == <<offline_logs, cartLogs, events_logged, deferred>>

\* the state of the cart screen
screenvars == <<scale, cart_items, next_id, removal_attrs, removals, checks, checked>>

\* the sampling side of the load sensor
samplingvars == <<baseline, is_running, reading_thread, weight_readings, readers,
                  estimate>>

\* the monitoring side of the load sensor
monitorvars == <<monitoring, monitoring_thread, weight_history, last_stable_weight,
                 monitors, event, step>>

\* the state of the load sensor
sensorvars == <<hx, samplingvars, monitorvars, tare_pc, was_running, unlocked,
                last_call>>

\* the state of the legacy checkout path
savevars == <<sessions_saved>>

\* the state the session, log and connectivity operations leave alone
devicevars == <<screenvars, sensorvars, savevars>>

\* the state of the handler
handlervars == <<db, online, offline_mode, active_session_id, current_session,
                 sessions, offline_sessions, clock, sessions_started, items_added,
                 started_id, offline_logs, cartLogs, events_logged, deferred, last,
                 carts, sessions_saved>>

\* the state of the shopping session
sessionvars == <<active_session_id, current_session, sessions, offline_sessions,
                 sessions_started, items_added, started_id>>

----------------------------------------------------------------------------
(* Bounds of the model *)

MaxSessions == 2
MaxClock == 1
MaxAdds == 2
MaxLogs == 3
MaxItems == 2

\* threads of the sampling loop started
MaxThreads == 2

\* threads of the monitoring loop started
MaxMonitors == 1

\* baselines taken by setup_hx711
MaxBaselines == 2

\* calls of save_session
MaxSaves == 2

\* events recorded after a step of the estimate
MaxEmitted == 2

(* Values *)

None == [kind |-> "None"]
Corrupt == [kind |-> "corrupt"]
cart_id == "34tzyyBVfilqXhs2gjw9"

\* Barcodes scanned in the model: 4011 is in the mock database and in the remote
\* 'items' collection, 57 is in neither.
Barcodes == {4011, 57}
Quantities == {1, 2}

OfflineId(t) == [kind |-> "offline-session", n |-> t]
AutoId(n) == [kind |-> "auto", n |-> n]

----------------------------------------------------------------------------
(* Catalog lookup *)

\* the mock database's products: barcode -> price
_get_basic_mock_database == (4011 :> 293)

\* the remote 'items' collection: barcode -> price
RemoteItems == (4011 :> 293)

\* _get_offline_product: the products it finds, and their prices
InMockDatabase(barcode) == barcode \in DOMAIN _get_basic_mock_database
_get_offline_product(barcode) == _get_basic_mock_database[barcode]

\* price = round(float(int(barcode) % 100) / 10, 2), in cents
_generate_fallback_product(barcode) == (barcode % 100) * 10

OfflineOrFallback(barcode) ==
    IF InMockDatabase(barcode)
    THEN _get_offline_product(barcode) ELSE _generate_fallback_product(barcode)

\* get_product_by_barcode: the price found, and the value of offline_mode after
\* the call.  reach: whether the remote reads of this call get through.
get_product_by_barcode(barcode, reach) ==
    IF online /\ ~offline_mode
    THEN IF reach
         THEN [price |-> IF barcode \in DOMAIN RemoteItems
                         THEN RemoteItems[barcode] ELSE OfflineOrFallback(barcode),
               offline_mode |-> offline_mode]
         ELSE [price |-> OfflineOrFallback(barcode), offline_mode |-> TRUE]
    ELSE [price |-> OfflineOrFallback(barcode), offline_mode |-> offline_mode]

----------------------------------------------------------------------------
(* Line items and the total *)

\* a total that forgets the quantities
RECURSIVE TotalCostUnitPrices(_)
TotalCostUnitPrices(items) ==
    IF items = <<>> THEN 0
    ELSE Head(items).unitPrice + TotalCostUnitPrices(Tail(items))

\* "Recalculate total cost"
RECURSIVE TotalCost(_)
TotalCost(items) ==
    IF items = <<>> THEN 0
    ELSE Head(items).unitPrice * Head(items).quantity + TotalCost(Tail(items))

HasItem(items, item_id) == \E i \in 1..Len(items) : items[i].itemId = item_id

FirstIndex(items, item_id) ==
    CHOOSE i \in 1..Len(items) :
        /\ items[i].itemId = item_id
        /\ \A j \in 1..(i - 1) : items[j].itemId # item_id

\* an add that appends a line whether or not the item has one
AddToItemsAppending(items, item_id, quantity, price) ==
    Append(items, [itemId |-> item_id, quantity |-> quantity, unitPrice |-> price])

\* add_item_to_session, "Update the local session data"
AddToItems(items, item_id, quantity, price) ==
    IF HasItem(items, item_id)
    THEN [items EXCEPT ![FirstIndex(items, item_id)].quantity = @ + quantity]
    ELSE Append(items, [itemId |-> item_id, quantity |-> quantity, unitPrice |-> price])

\* a removal that keeps the line whose quantity has reached zero
RECURSIVE RemoveFromItemsKeepZero(_, _, _)
RemoveFromItemsKeepZero(items, item_id, quantity) ==
    IF items = <<>> THEN <<>>
    ELSE LET item == Head(items)
             rest == RemoveFromItemsKeepZero(Tail(items), item_id, quantity)
         IN IF item.itemId = item_id
            THEN IF item.quantity - quantity < 0
                 THEN rest
                 ELSE <<[item EXCEPT !.quantity = @ - quantity]>> \o rest
            ELSE <<item>> \o rest

\* remove_item_from_session, "Update the local session data": items_to_keep
RECURSIVE RemoveFromItems(_, _, _)
RemoveFromItems(items, item_id, quantity) ==
    IF items = <<>> THEN <<>>
    ELSE LET item == Head(items)
             rest == RemoveFromItems(Tail(items), item_id, quantity)
         IN IF item.itemId = item_id
            THEN IF item.quantity - quantity <= 0
                 THEN rest
                 ELSE <<[item EXCEPT !.quantity = @ - quantity]>> \o rest
            ELSE <<item>> \o rest

----------------------------------------------------------------------------
(* The local store *)

\* json.dump raises TypeError on the Firestore sentinel
JsonSerializable(session_data) == session_data.startedAt # "SERVER_TIMESTAMP"

\* datetime -> isoformat string; everything else as JSON writes it
Normalize(session_data) ==
    [session_data EXCEPT
        !.startedAt = IF @ = "datetime" THEN "isoformat" ELSE @,
        !.endedAt = IF @ = "datetime" THEN "isoformat" ELSE @]

\* a save that does not overwrite a file that exists
SaveIfAbsent(session_id, session_data, diskOk) ==
    IF ~diskOk \/ session_id \in DOMAIN offline_sessions THEN offline_sessions
    ELSE IF ~JsonSerializable(session_data)
         THEN (session_id :> Corrupt) @@ offline_sessions
         ELSE (session_id :> Normalize(session_data)) @@ offline_sessions

\* a save that files the session of a cart without connection under an offline id
SaveUnderOfflineId(session_id, session_data, diskOk) ==
    IF ~diskOk THEN offline_sessions
    ELSE IF ~JsonSerializable(session_data)
         THEN (OfflineId(clock) :> Corrupt) @@ offline_sessions
         ELSE (OfflineId(clock) :> Normalize(session_data)) @@ offline_sessions

\* _save_offline_session: the files after the call.  diskOk: whether the directory
\* can be made and the file opened for writing.  A failed json.dump leaves the file
\* it has opened with 'w' cut off in the middle.
_save_offline_session(session_id, session_data, diskOk) ==
    IF ~diskOk THEN offline_sessions
    ELSE IF ~JsonSerializable(session_data)
         THEN (session_id :> Corrupt) @@ offline_sessions
         ELSE (session_id :> Normalize(session_data)) @@ offline_sessions

\* what the caller cannot see: whether the file now holds the session
SaveOutcome(session_data, diskOk) ==
    IF diskOk /\ JsonSerializable(session_data) THEN "ok" ELSE "failed"

----------------------------------------------------------------------------
(* Sessions *)

\* a session that carries the cart id of the constructor's docstring
NewSessionOfOtherCart(session_id, startedAt) ==
    [sessionId |-> session_id, cartId |-> "5DxLednzNqTVqfwbs2xf", status |-> "active",
     startedAt |-> startedAt, endedAt |-> "null", totalCost |-> 0, items |-> <<>>]

NewSession(session_id, startedAt) ==
    [sessionId |-> session_id, cartId |-> cart_id, status |-> "active",
     startedAt |-> startedAt, endedAt |-> "null", totalCost |-> 0, items |-> <<>>]

\* the document the remote store holds after set(session_data)
RemoteDocument(session_data) ==
    [sessionId |-> session_data.sessionId, cartId |-> session_data.cartId,
     status |-> session_data.status, startedAt |-> "server",
     endedAt |-> session_data.endedAt, totalCost |-> session_data.totalCost,
     items |-> session_data.items, updatedAt |-> "absent"]

NoActiveSession == active_session_id = None \/ current_session = None

\* 'self.online and not self.offline_mode and self.db'
UseRemote(offline) == online /\ ~offline /\ db

\* a call as its caller and the stores see it: the operation and the arguments it
\* has read, the value returned, what became of its remote write and of its local write ("none":
\* not attempted)
CallWith(op, args, ret, remote, local) ==
    [op |-> op, args |-> args, ret |-> ret, remote |-> remote, local |-> local]

Call(op, ret, remote, local) == CallWith(op, <<>>, ret, remote, local)

----------------------------------------------------------------------------
\* CartScreen.__init__ and ShoppingCart.__init__: an empty cart on an empty scale,
\* nothing scheduled, the attributes of a removal not yet set
InitScreen ==
    /\ scale = 0
    /\ cart_items = <<>>
    /\ next_id = 1
    /\ removal_attrs = None
    /\ removals = <<>>
    /\ checks = <<>>
    /\ checked = None

\* the call the main thread made last
SensorCall(op, ret, raised) == [op |-> op, ret |-> ret, raised |-> raised]

\* LoadSensor.__init__: the HX711 was set up or its set-up failed (self.hx is
\* None); no baseline, no thread, empty window and history
InitSensor ==
    /\ hx \in BOOLEAN
    /\ baseline = 0
    /\ is_running = FALSE
    /\ reading_thread = 0
    /\ weight_readings = <<>>
    /\ readers = <<>>
    /\ monitoring = FALSE
    /\ monitoring_thread = 0
    /\ weight_history = <<>>
    /\ last_stable_weight = 0
    /\ monitors = <<>>
    /\ tare_pc = "idle"
    /\ was_running = FALSE
    /\ estimate = 0
    /\ event = None
    /\ step = None
    /\ unlocked = {}
    /\ last_call = SensorCall("__init__", "None", FALSE)

Init ==
    \* __init__: no credentials or no client; client and working connection;
    \* client but failing first read
    /\ \/ db = FALSE /\ online = FALSE /\ offline_mode = TRUE
       \/ db = TRUE /\ online = TRUE /\ offline_mode = FALSE
       \/ db = TRUE /\ online = FALSE /\ offline_mode = TRUE
    /\ active_session_id = None
    /\ current_session = None
    /\ sessions = <<>>
    /\ offline_sessions = <<>>
    /\ clock = 0
    /\ sessions_started = 0
    /\ items_added = 0
    /\ started_id = None
    /\ offline_logs = <<>>
    /\ cartLogs = <<>>
    /\ events_logged = 0
    /\ deferred = {}
    /\ last = Call("init", None, "none", "none")
    \* _register_new_cart, called by __init__ when the connection works
    /\ carts = IF online /\ ~offline_mode THEN "online" ELSE "absent"
    /\ sessions_saved = 0
    /\ InitScreen
    /\ InitSensor

\* time.time(): the clock never runs backwards
Now == clock..MaxClock

\* the offline branch and the fallback branch of start_shopping_session, at time t
StartOffline(remote, t, diskOk) ==
    LET session_id == OfflineId(t)
        session == NewSession(session_id, "datetime")
    IN /\ clock' = t
       /\ active_session_id' = session_id
       /\ current_session' = session
       /\ offline_sessions' = _save_offline_session(session_id, session, diskOk)
       /\ started_id' = session_id
       /\ last' = Call("start", session_id, remote, SaveOutcome(session, diskOk))
       /\ UNCHANGED sessions

start_shopping_session ==
    /\ UNCHANGED <<logvars, devicevars>>
    /\ sessions_started < MaxSessions
    /\ sessions_started' = sessions_started + 1
    /\ IF ~db \/ offline_mode
       THEN \E t \in Now, diskOk \in BOOLEAN : StartOffline("none", t, diskOk)
       ELSE \E reach \in BOOLEAN :
            IF reach
            THEN LET session_id == AutoId(sessions_started + 1)
                      session_data == NewSession(session_id, "SERVER_TIMESTAMP")
                  IN /\ active_session_id' = session_id
                     /\ sessions' = (session_id :> RemoteDocument(session_data)) @@ sessions
                     /\ current_session' = session_data
                     /\ started_id' = session_id
                     /\ last' = Call("start", session_id, "ok", "none")
                     /\ UNCHANGED <<offline_sessions, clock>>
            ELSE \E t \in Now, diskOk \in BOOLEAN : StartOffline("failed", t, diskOk)
    /\ UNCHANGED <<db, online, offline_mode, items_added, carts>>

\* session_ref.update(fields): fails when the call does not get through and when
\* the document does not exist
UpdateSucceeds(session_id, reach) == reach /\ session_id \in DOMAIN sessions

\* an update that sends the items without the total
UpdateItemsOnly(session_id, items, total_cost) ==
    [sessions EXCEPT ![session_id] =
        [@ EXCEPT !.sessionId = session_id, !.items = items, !.updatedAt = "server"]]

\* the remote collection after the update of items and totalCost
UpdateItems(session_id, items, total_cost) ==
    [sessions EXCEPT ![session_id] =
        [@ EXCEPT !.sessionId = session_id, !.items = items,
                  !.totalCost = total_cost, !.updatedAt = "server"]]

\* the remote collection after the update of status and endedAt
UpdateStatus(session_id, status) ==
    [sessions EXCEPT ![session_id] =
        [@ EXCEPT !.sessionId = session_id, !.status = status,
                  !.endedAt = "server", !.updatedAt = "server"]]

\* the outcomes a call can have: TRUE or FALSE when it is made, none to choose when
\* it is not
Outcomes(made) == IF made THEN BOOLEAN ELSE {TRUE}

\* "Update the session in Firestore if online" of add_item_to_session and
\* remove_item_from_session: session is the session after the mutation
PersistItems(op, args, session, offline) ==
    IF UseRemote(offline)
    THEN \E reach \in BOOLEAN :
         IF UpdateSucceeds(active_session_id, reach)
         THEN /\ sessions' = UpdateItems(active_session_id, session.items, session.totalCost)
              /\ last' = CallWith(op, args, TRUE, "ok", "none")
              /\ UNCHANGED offline_sessions
         ELSE \E diskOk \in BOOLEAN :
              /\ offline_sessions' = _save_offline_session(active_session_id, session, diskOk)
              /\ last' = CallWith(op, args, FALSE, "failed", SaveOutcome(session, diskOk))
              /\ UNCHANGED sessions
    ELSE \E diskOk \in BOOLEAN :
         /\ offline_sessions' = _save_offline_session(active_session_id, session, diskOk)
         /\ last' = CallWith(op, args, TRUE, "none", SaveOutcome(session, diskOk))
         /\ UNCHANGED sessions

\* an early return that reports success
RejectedReturningTrue(op, args) ==
    /\ last' = CallWith(op, args, TRUE, "none", "none")
    /\ UNCHANGED <<offline_mode, current_session, active_session_id, sessions,
                   offline_sessions>>

\* the early 'return False' of a call that writes nothing
Rejected(op, args) ==
    /\ last' = CallWith(op, args, FALSE, "none", "none")
    /\ UNCHANGED <<offline_mode, current_session, active_session_id, sessions,
                   offline_sessions>>

add_item_to_session ==
    /\ UNCHANGED <<logvars, devicevars>>
    /\ IF NoActiveSession
       THEN Rejected("add", <<>>)
       ELSE \E item_id \in Barcodes, quantity \in Quantities,
               lookup \in Outcomes(online /\ ~offline_mode) :
            LET product == get_product_by_barcode(item_id, lookup)
                items == AddToItems(current_session.items, item_id, quantity,
                                    product.price)
                session == [current_session EXCEPT
                               !.items = items, !.totalCost = TotalCost(items)]
            IN /\ items_added < MaxAdds
               /\ offline_mode' = product.offline_mode
               /\ current_session' = session
               /\ PersistItems("add", <<item_id, quantity>>, session, product.offline_mode)
               /\ UNCHANGED active_session_id
    /\ items_added' = IF NoActiveSession THEN items_added ELSE items_added + 1
    /\ UNCHANGED <<db, online, clock, sessions_started, started_id, carts>>

remove_item_from_session ==
    /\ UNCHANGED <<logvars, devicevars>>
    /\ IF NoActiveSession
       THEN Rejected("remove", <<>>)
       ELSE \E item_id \in Barcodes :
            IF ~HasItem(current_session.items, item_id)
            THEN Rejected("remove", <<item_id>>)
            ELSE \E quantity \in Quantities :
                 LET items == RemoveFromItems(current_session.items, item_id, quantity)
                     session == [current_session EXCEPT
                                    !.items = items, !.totalCost = TotalCost(items)]
                 IN /\ current_session' = session
                    /\ PersistItems("remove", <<item_id, quantity>>, session,
                                    offline_mode)
                    /\ UNCHANGED <<offline_mode, active_session_id>>
    /\ UNCHANGED <<db, online, clock, sessions_started, items_added, started_id,
                   carts>>

\* a clearing that forgets current_session
ClearActiveSessionIdOnly ==
    /\ active_session_id' = None
    /\ current_session' = current_session

\* a clearing that forgets active_session_id
ClearCurrentSessionOnly ==
    /\ active_session_id' = active_session_id
    /\ current_session' = None

\* "Clear the active session"
ClearActiveSession ==
    /\ active_session_id' = None
    /\ current_session' = None

\* a return value that is True in every branch
EndReturnAlwaysTrue(remote) == TRUE

\* what complete_shopping_session and abandon_shopping_session return: True after
\* the remote update and in offline mode, False after a failed remote update
EndReturn(remote) == remote # "failed"

\* complete_shopping_session (status "completed") and abandon_shopping_session
\* (status "abandoned"), which differ in the status alone
EndSession(op, status) ==
    /\ UNCHANGED <<logvars, devicevars>>
    /\ IF NoActiveSession
       THEN Rejected(op, <<>>)
       ELSE \E reach \in Outcomes(UseRemote(offline_mode)), diskOk \in BOOLEAN :
            LET session == [current_session EXCEPT
                               !.status = status, !.endedAt = "datetime"]
                saved == SaveOutcome(session, diskOk)
            IN /\ IF UseRemote(offline_mode)
                  THEN IF UpdateSucceeds(active_session_id, reach)
                       THEN /\ sessions' = UpdateStatus(active_session_id, status)
                            /\ last' = Call(op, EndReturn("ok"), "ok", saved)
                       ELSE /\ last' = Call(op, EndReturn("failed"), "failed", saved)
                            /\ UNCHANGED sessions
                  ELSE /\ last' = Call(op, EndReturn("none"), "none", saved)
                       /\ UNCHANGED sessions
               /\ offline_sessions' = _save_offline_session(active_session_id, session, diskOk)
               /\ ClearActiveSession
               /\ UNCHANGED offline_mode
    /\ UNCHANGED <<db, online, clock, sessions_started, items_added, started_id,
                   carts>>

\* a reader that answers from the stored copy of the session when there is one
StoredActiveSession ==
    IF active_session_id \in DOMAIN offline_sessions
          /\ offline_sessions[active_session_id] # Corrupt
    THEN offline_sessions[active_session_id]
    ELSE current_session

\* get_active_session
get_active_session == current_session

\* get_session(session_id): the in-memory session, else the remote document when
\* the read gets through (reach), else the local file when it can be parsed
get_session(session_id, reach) ==
    IF active_session_id = session_id /\ current_session # None
    THEN current_session
    ELSE IF UseRemote(offline_mode) /\ reach /\ session_id \in DOMAIN sessions
         THEN [sessions[session_id] EXCEPT !.sessionId = session_id]
         ELSE IF session_id \in DOMAIN offline_sessions
                    /\ offline_sessions[session_id] # Corrupt
              THEN offline_sessions[session_id]
              ELSE None

complete_shopping_session == EndSession("complete", "completed")

abandon_shopping_session == EndSession("abandon", "abandoned")

\* _register_new_cart: the cart's remote document after the call made with the
\* flag offline_mode at value offline.  reach: whether the remote store answers
\* during the call; a failed write is logged and swallowed.
_register_new_cart(offline, reach) ==
    IF ~db \/ offline THEN carts
    ELSE IF reach THEN "online" ELSE carts

\* _update_cart_status: the same for an update of the field status.  update()
\* of a document that does not exist fails with NOT_FOUND and the cart is
\* registered instead.
_update_cart_status(offline, status, reach) ==
    IF ~db \/ offline THEN carts
    ELSE IF ~reach THEN carts
    ELSE IF carts = "absent" THEN _register_new_cart(offline, reach)
    ELSE status

\* a probe that sets online and leaves offline_mode as it was
ProbeKeepingOfflineMode ==
    /\ UNCHANGED <<logvars, devicevars>>
    /\ IF ~db
       THEN /\ last' = Call("test_connection", FALSE, "none", "none")
            /\ UNCHANGED <<online, offline_mode, carts>>
       ELSE \E probe \in BOOLEAN :
            IF probe
            THEN /\ online' = TRUE
                  /\ last' = Call("test_connection", TRUE, "none", "none")
                  /\ carts' = _update_cart_status(offline_mode, "online", probe)
                  /\ UNCHANGED offline_mode
             ELSE /\ offline_mode' = TRUE
                  /\ last' = Call("test_connection", FALSE, "none", "none")
                  /\ carts' = _update_cart_status(TRUE, "offline", probe)
                  /\ UNCHANGED online
    /\ UNCHANGED <<db, active_session_id, current_session, sessions, offline_sessions,
                   clock, sessions_started, items_added, started_id>>

\* a probe that leaves offline mode without marking the connection as working
ProbeClearingOfflineModeOnly ==
    /\ UNCHANGED <<logvars, devicevars>>
    /\ IF ~db
       THEN /\ last' = Call("test_connection", FALSE, "none", "none")
            /\ UNCHANGED <<online, offline_mode, carts>>
       ELSE \E probe \in BOOLEAN :
            IF probe
            THEN /\ offline_mode' = FALSE
                  /\ last' = Call("test_connection", TRUE, "none", "none")
                  /\ carts' = _update_cart_status(FALSE, "online", probe)
                  /\ UNCHANGED online
             ELSE /\ offline_mode' = TRUE
                  /\ last' = Call("test_connection", FALSE, "none", "none")
                  /\ carts' = _update_cart_status(TRUE, "offline", probe)
                  /\ UNCHANGED online
    /\ UNCHANGED <<db, active_session_id, current_session, sessions, offline_sessions,
                   clock, sessions_started, items_added, started_id>>

\* test_connection.  The log replay it starts returns at once, offline_mode being
\* still set when it is called.  The status is written to the cart's remote
\* document after the flags are set: with offline_mode cleared after a probe
\* that succeeded, with offline_mode set after one that failed.
test_connection ==
    /\ UNCHANGED <<logvars, devicevars>>
    /\ IF ~db
       THEN /\ last' = Call("test_connection", FALSE, "none", "none")
            /\ UNCHANGED <<online, offline_mode, carts>>
       ELSE \E probe \in BOOLEAN :
            IF probe
            THEN /\ online' = TRUE
                  /\ offline_mode' = FALSE
                  /\ last' = Call("test_connection", TRUE, "none", "none")
                  /\ carts' = _update_cart_status(FALSE, "online", probe)
             ELSE /\ offline_mode' = TRUE
                  /\ last' = Call("test_connection", FALSE, "none", "none")
                  /\ carts' = _update_cart_status(TRUE, "offline", probe)
                  /\ UNCHANGED online
    /\ UNCHANGED <<db, active_session_id, current_session, sessions, offline_sessions,
                   clock, sessions_started, items_added, started_id>>

\* switch_to_offline_mode: the flag is set first, the status update is called
\* after it.
switch_to_offline_mode ==
    /\ UNCHANGED <<logvars, devicevars>>
    /\ offline_mode' = TRUE
    /\ \E reach \in BOOLEAN :
          carts' = _update_cart_status(TRUE, "offline", reach)
    /\ last' = Call("switch_to_offline_mode", None, "none", "none")
    /\ UNCHANGED <<db, online, active_session_id, current_session, sessions,
                   offline_sessions, clock, sessions_started, items_added, started_id>>

Next ==
    \/ start_shopping_session
    \/ add_item_to_session
    \/ remove_item_from_session
    \/ complete_shopping_session
    \/ abandon_shopping_session
    \/ test_connection
    \/ switch_to_offline_mode

Spec == Init /\ [][Next]_vars

----------------------------------------------------------------------------
(* Activity log *)

\* the activity types the cart controller logs when a barcode is scanned
ActivityTypes == {"scan", "weight_change"}

\* log_entry of the n-th call: datetime.now() and the details tell the entries of
\* different calls apart
LogEntry(activity_type, n) ==
    [timestamp |-> n, cart_id |-> cart_id, activity_type |-> activity_type]

\* "Store offline for later sync": the files after open(log_<t>.json, 'w') and
\* json.dump.  diskOk: whether the directory can be made and the file opened.
StoreOffline(t, log_entry, diskOk) ==
    IF diskOk THEN (t :> log_entry) @@ offline_logs ELSE offline_logs

\* a return value that is True whenever the entry was kept somewhere
LogReturnTrueWhenKept(remote, local) == remote = "ok" \/ local = "ok"

\* what log_cart_activity returns: True after the remote append, False after the
\* local write and after an error
LogReturn(remote, local) == remote = "ok"

log_cart_activity ==
    /\ events_logged < MaxLogs
    /\ events_logged' = events_logged + 1
    /\ \E activity_type \in ActivityTypes, reach \in Outcomes(~offline_mode /\ db) :
          LET log_entry == LogEntry(activity_type, events_logged + 1)
              remote == IF ~offline_mode /\ db THEN "failed" ELSE "none"
          IN IF ~offline_mode /\ db /\ reach
             THEN /\ cartLogs' = Append(cartLogs, log_entry)
                  /\ last' = Call("log", LogReturn("ok", "none"), "ok", "none")
                  /\ UNCHANGED <<offline_logs, deferred, clock>>
             ELSE \E t \in Now, diskOk \in BOOLEAN :
                  LET local == IF diskOk THEN "ok" ELSE "failed"
                  IN /\ clock' = t
                     /\ offline_logs' = StoreOffline(t, log_entry, diskOk)
                     /\ deferred' = IF diskOk
                                    THEN deferred \cup {[log_entry |-> log_entry,
                                                         remote |-> remote]}
                                    ELSE deferred
                     /\ last' = Call("log", LogReturn(remote, local), remote, local)
                     /\ UNCHANGED cartLogs
    /\ UNCHANGED <<db, online, offline_mode, carts>>
    /\ UNCHANGED <<sessionvars, devicevars>>

\* os.listdir: the files of a directory in an order of its own
ListDir(files) ==
    {log_files \in [1..Cardinality(files) -> files] :
        \A i, j \in 1..Cardinality(files) : log_files[i] = log_files[j] => i = j}

\* the files of a replay that stops at the first append that fails
ReplayedUntilFailure(log_files, accepted) ==
    {log_files[i] : i \in {j \in 1..Len(log_files) :
                              \A k \in 1..j : log_files[k] \in accepted}}

\* the files whose entry the loop of sync_offline_logs has appended and deleted
Replayed(log_files, accepted) ==
    {log_files[i] : i \in {j \in 1..Len(log_files) : log_files[j] \in accepted}}

\* the entries of the replayed files, in the order of log_files
RECURSIVE ReplayedEntries(_, _)
ReplayedEntries(log_files, replayed) ==
    IF log_files = <<>> THEN <<>>
    ELSE (IF Head(log_files) \in replayed
          THEN <<offline_logs[Head(log_files)]>> ELSE <<>>)
         \o ReplayedEntries(Tail(log_files), replayed)

\* sync_offline_logs.  accepted: the files whose append the remote store takes.
sync_offline_logs ==
    /\ IF offline_mode \/ ~db \/ DOMAIN offline_logs = {}
       THEN /\ last' = Call("sync", <<0, 0>>, "none", "none")
            /\ UNCHANGED <<offline_logs, cartLogs>>
       ELSE \E log_files \in ListDir(DOMAIN offline_logs),
               accepted \in SUBSET DOMAIN offline_logs :
            LET replayed == Replayed(log_files, accepted)
                synced == Cardinality(replayed)
                failed == Cardinality(DOMAIN offline_logs \ accepted)
            IN /\ cartLogs' = cartLogs \o ReplayedEntries(log_files, replayed)
               /\ offline_logs' = [f \in DOMAIN offline_logs \ replayed |-> offline_logs[f]]
               /\ last' = CallWith("sync", <<log_files, accepted>>, <<synced, failed>>,
                                   IF failed = 0 THEN "ok" ELSE "failed", "none")
    /\ UNCHANGED <<db, online, offline_mode, clock, events_logged, deferred, carts>>
    /\ UNCHANGED <<sessionvars, devicevars>>

NextLog ==
    \/ log_cart_activity
    \/ sync_offline_logs
    \/ test_connection
    \/ switch_to_offline_mode

SpecLog == Init /\ [][NextLog]_vars

\* the activity log of a cart on which sessions are started
NextCart ==
    \/ log_cart_activity
    \/ sync_offline_logs
    \/ test_connection
    \/ switch_to_offline_mode
    \/ start_shopping_session

SpecCart == Init /\ [][NextCart]_vars

----------------------------------------------------------------------------
(* The checkout of the cart screen *)

\* the products a ShoppingCart holds: dicts with 'id' and 'price' and without
\* 'quantity'
Products == {[id |-> 4011, price |-> 293], [id |-> 57, price |-> 570]}

\* ShoppingCart.get_total: the sum of the prices
RECURSIVE get_total(_)
get_total(items) ==
    IF items = <<>> THEN 0 ELSE Head(items).price + get_total(Tail(items))

\* ShoppingCart.get_session_data: a dict with the keys 'timestamp', 'total',
\* 'item_count' and 'items'.  keys: the keys of the dict among those save_session
\* reads.
get_session_data(items) ==
    [keys |-> {"items"}, items |-> items, total |-> get_total(items), total_cost |-> 0]

\* the carts checked out in the model
CartContents ==
    {<<p>> : p \in Products} \cup {<<p, q>> : p \in Products, q \in Products}

\* the arguments of save_session: the dicts of get_session_data, and a dict that
\* has 'total_cost' and no 'items'
SessionData ==
    {get_session_data(items) : items \in CartContents}
        \cup {[keys |-> {"total_cost"}, items |-> <<>>, total |-> 0, total_cost |-> 293]}

\* session_data.get('total_cost', 0)
GetTotalCost(session_data) ==
    IF "total_cost" \in session_data.keys THEN session_data.total_cost ELSE 0

\* "Convert items if present": item.get('quantity', 1) of a product is 1
ConvertItems(session_data) ==
    IF "items" \in session_data.keys
    THEN [i \in 1..Len(session_data.items) |->
             [itemId |-> session_data.items[i].id, quantity |-> 1,
              unitPrice |-> session_data.items[i].price]]
    ELSE <<>>

\* formatted_session; stamp: the value of startedAt and endedAt
FormattedSession(session_id, session_data, stamp, total_cost) ==
    [sessionId |-> session_id, cartId |-> cart_id, status |-> "completed",
     startedAt |-> stamp, endedAt |-> stamp, totalCost |-> total_cost,
     items |-> ConvertItems(session_data)]

\* the exception raised by the read of a local that was never assigned
UnboundLocalError == [kind |-> "UnboundLocalError"]

\* the steps of the remote path that can fail
RemoteSteps == {"document", "set"}

\* the branch of save_session taken without a client or in offline mode
SaveOffline(session_data, t, diskOk) ==
    LET offline_id == OfflineId(t)
        formatted_session ==
            FormattedSession(offline_id, session_data, "isoformat",
                             GetTotalCost(session_data))
    IN /\ clock' = t
       /\ offline_sessions' = _save_offline_session(offline_id, formatted_session, diskOk)
       /\ last' = CallWith("save_session", session_data, offline_id, "none",
                           SaveOutcome(formatted_session, diskOk))
       /\ UNCHANGED sessions

\* the try block of save_session when every step succeeds: the document is set
\* and a copy with local timestamps is filed under the same id
SaveRemote(session_data, diskOk) ==
    LET session_id == AutoId(MaxSessions + sessions_saved + 1)
        items == ConvertItems(session_data)
        total_cost == IF "items" \in session_data.keys
                      THEN TotalCost(items) ELSE GetTotalCost(session_data)
        formatted_session ==
            FormattedSession(session_id, session_data, "SERVER_TIMESTAMP", total_cost)
        offline_formatted ==
            FormattedSession(session_id, session_data, "isoformat", total_cost)
    IN /\ sessions' = (session_id :>
                          [RemoteDocument(formatted_session) EXCEPT !.endedAt = "server"])
                      @@ sessions
       /\ offline_sessions' = _save_offline_session(session_id, offline_formatted, diskOk)
       /\ last' = CallWith("save_session", session_data, session_id, "ok",
                           SaveOutcome(offline_formatted, diskOk))
       /\ UNCHANGED clock

\* the except block of save_session after the step failed has raised.  The local
\* total_cost is assigned after the document reference is obtained and read
\* when session_data has 'items'.
SaveFallback(session_data, failed, t, diskOk) ==
    LET offline_id == OfflineId(t)
        items == ConvertItems(session_data)
        formatted_session ==
            FormattedSession(offline_id, session_data, "isoformat",
                             IF "items" \in session_data.keys
                             THEN TotalCost(items) ELSE GetTotalCost(session_data))
    IN /\ clock' = t
       /\ UNCHANGED sessions
       /\ IF failed = "document" /\ "items" \in session_data.keys
          THEN /\ last' = CallWith("save_session", session_data, UnboundLocalError,
                                  "failed", "none")
               /\ UNCHANGED offline_sessions
          ELSE /\ offline_sessions' =
                      _save_offline_session(offline_id, formatted_session, diskOk)
               /\ last' = CallWith("save_session", session_data, offline_id, "failed",
                                   SaveOutcome(formatted_session, diskOk))

\* save_session, called by CartScreen.end_session with get_session_data()
save_session ==
    /\ sessions_saved < MaxSaves
    /\ sessions_saved' = sessions_saved + 1
    /\ \E session_data \in SessionData, t \in Now, diskOk \in BOOLEAN :
          IF ~db \/ offline_mode
          THEN SaveOffline(session_data, t, diskOk)
          ELSE \/ SaveRemote(session_data, diskOk)
               \/ \E failed \in RemoteSteps :
                      SaveFallback(session_data, failed, t, diskOk)
    /\ UNCHANGED <<db, online, offline_mode, carts, active_session_id, current_session,
                   sessions_started, items_added, started_id>>
    /\ UNCHANGED <<logvars, screenvars, sensorvars>>

NextSave ==
    \/ save_session
    \/ test_connection
    \/ switch_to_offline_mode

SpecSave == Init /\ [][NextSave]_vars

----------------------------------------------------------------------------
(* Cart screen: the check of the scale after an item was added or removed.  The
   calls the screen makes to the handler in the same methods (product lookup,
   activity log, connection probe) are the handler's actions above. *)

\* product.get('weight', 0) of the products scanned, in units of 0.1 kg
ProductWeights == {0, 5, 10}

\* the readings of the scale, in units of 0.1 kg
ScaleWeights == {0, 2, 10}

\* 'threshold=0.1' of verify_weight_change, in units of 0.1 kg
DefaultThreshold == 1

\* '1.0  # Threshold in kg', the threshold both callers pass, in units of 0.1 kg
CallerThreshold == 10

Abs(x) == IF x < 0 THEN -x ELSE x

\* verify_weight_change: the values it compares and whether it shows the warning
verify_weight_change(previous_weight, expected_change, threshold) ==
    LET current_weight == scale
        actual_change == current_weight - previous_weight
    IN [previous_weight |-> previous_weight,
        expected_change |-> expected_change,
        actual_change |-> actual_change,
        warning |-> Abs(actual_change - expected_change) > threshold]

\* the scheduled check of an add: the lambda holds the locals of its call
AddCheck(pre_add_weight, expected_weight_change) ==
    [by |-> "add", previous_weight |-> pre_add_weight,
     expected_change |-> expected_weight_change]

\* the scheduled check of a removal, with the weight before that removal and
\* the change expected of it; the lambda itself holds none of them and reads
\* self.pre_removal_weight and self.expected_weight_change when it is called
RemovalCheck(removal) ==
    [by |-> "remove", previous_weight |-> removal.pre_removal_weight,
     expected_change |-> -removal.expected_weight_change]

\* process_scanned_barcode, as far as the cart and the scale are concerned
process_scanned_barcode ==
    /\ next_id <= MaxItems
    /\ \E weight \in ProductWeights :
          LET pre_add_weight == scale
              expected_weight_change == weight
          IN /\ cart_items' = (next_id :> weight) @@ cart_items
             /\ next_id' = next_id + 1
             /\ checks' = IF weight > 0
                          THEN Append(checks, AddCheck(pre_add_weight,
                                                       expected_weight_change))
                          ELSE checks
    /\ UNCHANGED <<scale, removal_attrs, removals, checked>>
    /\ UNCHANGED <<handlervars, sensorvars>>

\* on_confirm of the removal popup of an item of the cart
on_confirm ==
    /\ \E item_id \in DOMAIN cart_items :
          /\ \A i \in 1..Len(removals) : removals[i].item_id # item_id
          /\ LET attrs == [pre_removal_weight |-> scale,
                           expected_weight_change |-> cart_items[item_id]]
             IN /\ removal_attrs' = attrs
                /\ removals' = Append(removals,
                                      [item_id |-> item_id,
                                       pre_removal_weight |-> attrs.pre_removal_weight,
                                       expected_weight_change |->
                                           attrs.expected_weight_change])
    /\ UNCHANGED <<scale, cart_items, next_id, checks, checked>>
    /\ UNCHANGED <<handlervars, sensorvars>>

\* _complete_item_removal, called by the Clock 0.3 s after on_confirm
_complete_item_removal ==
    /\ removals # <<>>
    /\ LET removal == Head(removals)
       IN /\ cart_items' = [i \in DOMAIN cart_items \ {removal.item_id} |-> cart_items[i]]
          /\ checks' = Append(checks, RemovalCheck(removal))
    /\ removals' = Tail(removals)
    /\ UNCHANGED <<scale, next_id, removal_attrs, checked>>
    /\ UNCHANGED <<handlervars, sensorvars>>

\* the Clock calls the oldest scheduled lambda, 10 s after it was scheduled
FireCheck ==
    /\ checks # <<>>
    /\ LET check == Head(checks)
       IN checked' = IF check.by = "add"
                     THEN verify_weight_change(check.previous_weight,
                                               check.expected_change, CallerThreshold)
                     ELSE verify_weight_change(removal_attrs.pre_removal_weight,
                                               -removal_attrs.expected_weight_change,
                                               CallerThreshold)
    /\ checks' = Tail(checks)
    /\ UNCHANGED <<scale, cart_items, next_id, removal_attrs, removals>>
    /\ UNCHANGED <<handlervars, sensorvars>>

\* the load on the scale changes
WeightChange ==
    /\ \E weight \in ScaleWeights \ {scale} : scale' = weight
    /\ UNCHANGED <<cart_items, next_id, removal_attrs, removals, checks, checked>>
    /\ UNCHANGED <<handlervars, sensorvars>>

NextScreen ==
    \/ process_scanned_barcode
    \/ on_confirm
    \/ _complete_item_removal
    \/ FireCheck
    \/ WeightChange

SpecScreen == Init /\ [][NextScreen]_vars

----------------------------------------------------------------------------
(* The load sensor (models/load_sensor.py, class LoadSensor) *)

\* self.max_readings, the length of the window of samples read_weight averages
max_readings == 10

\* history_size of _monitoring_loop, H: the length of the stability history
history_size == 5

\* stable_threshold of _monitoring_loop, grams
stable_threshold == 2

\* self.weight_threshold, grams
weight_threshold == 50

\* what read_weight() * 1000.0 can be, grams (read_weight rounds to 0.01 kg)
Estimates == {0, 50, 60, 200}

RECURSIVE SeqSum(_)
SeqSum(s) == IF s = <<>> THEN 0 ELSE Head(s) + SeqSum(Tail(s))

\* min(...) and max(...) of a list that is not empty
SeqMin(s) ==
    CHOOSE x \in {s[i] : i \in DOMAIN s} : \A i \in DOMAIN s : x <= s[i]

SeqMax(s) ==
    CHOOSE x \in {s[i] : i \in DOMAIN s} : \A i \in DOMAIN s : x >= s[i]

\* round(kg, 2) of a weight given in grams: to the nearest 10 g
Round10(grams) == ((grams + 5) \div 10) * 10

\* list.append(x) followed by pop(0) when the list got longer than size
Push(list, x, size) ==
    IF Len(list) + 1 > size THEN Tail(Append(list, x)) ELSE Append(list, x)

\* the sampling side of the sensor, as start_reading and stop_reading change it
Sampling ==
    [baseline |-> baseline, is_running |-> is_running,
     reading_thread |-> reading_thread, weight_readings |-> weight_readings,
     readers |-> readers, estimate |-> estimate, raised |-> FALSE,
     unlocked |-> {}]

\* setup_hx711 that got raw values (ok) or none: the baseline is taken anew, so
\* that the load as it is reads 0, and the window is replaced without the lock;
\* without raw values it raises
SetupHx711(s, ok) ==
    IF ~hx THEN s
    ELSE IF ~ok THEN [s EXCEPT !.raised = TRUE]
    ELSE [s EXCEPT !.baseline = s.baseline + 1,
                   !.weight_readings = <<>>,
                   !.estimate = 0,
                   !.unlocked = {"weight_readings"}]

\* start_reading on s
StartReading(s, ok) ==
    IF s.is_running THEN s
    ELSE LET t == IF s.baseline = 0 THEN SetupHx711(s, ok) ELSE s
         IN IF t.raised THEN t
            ELSE [t EXCEPT !.is_running = TRUE,
                           !.readers = Append(t.readers, "test"),
                           !.reading_thread = Len(t.readers) + 1]

\* a stop_reading that leaves the run flag as it is
StopReadingKeepingFlag(s) == [s EXCEPT !.reading_thread = 0]

\* stop_reading on s: the flag is cleared and the handle dropped, whether the
\* join (at most 1 s, and only of a live thread) saw the loop end or not
StopReading(s) == [s EXCEPT !.is_running = FALSE, !.reading_thread = 0]

SetSampling(s) ==
    /\ baseline' = s.baseline
    /\ is_running' = s.is_running
    /\ reading_thread' = s.reading_thread
    /\ weight_readings' = s.weight_readings
    /\ readers' = s.readers
    /\ estimate' = s.estimate

\* the calls of the main thread are made one after the other
MainIdle == tare_pc = "idle"

\* a setup_hx711 can be made: the number of baselines taken is bounded
CanSetup == baseline < MaxBaselines

start_reading ==
    /\ MainIdle
    /\ Len(readers) < MaxThreads
    /\ CanSetup
    /\ \E ok \in BOOLEAN :
          LET s == StartReading(Sampling, ok)
          IN /\ SetSampling(s)
             /\ unlocked' = s.unlocked
             /\ last_call' = SensorCall("start_reading", "None", s.raised)
    /\ UNCHANGED <<hx, monitorvars, tare_pc, was_running>>
    /\ UNCHANGED <<handlervars, screenvars>>

stop_reading ==
    /\ MainIdle
    /\ SetSampling(StopReading(Sampling))
    /\ unlocked' = {}
    /\ last_call' = SensorCall("stop_reading", "None", FALSE)
    /\ UNCHANGED <<hx, monitorvars, tare_pc, was_running>>
    /\ UNCHANGED <<handlervars, screenvars>>

\* _get_direct_weight() * 1000.0: the load against the baseline, 0.0 when
\* there is no HX711, when it gave no values (ok is false) or when it raised
DirectGrams(s, ok) == IF hx /\ ok THEN s.estimate ELSE 0

\* whether the HX711 gives values to a direct reading: it may or may not, and
\* only with an HX711 and a load that does not read 0 the two differ
Readings == IF hx /\ estimate # 0 THEN BOOLEAN ELSE {TRUE}

\* read_weight() * 1000.0 on s: the mean of the window under the lock while the
\* sampling loop runs, a direct reading otherwise
ReadGrams(s, ok) ==
    IF s.is_running
    THEN IF s.weight_readings = <<>> THEN 0
         ELSE Round10(SeqSum(s.weight_readings) \div Len(s.weight_readings))
    ELSE DirectGrams(s, ok)

start_monitoring ==
    /\ MainIdle
    /\ Len(monitors) < MaxMonitors
    /\ ~is_running => Len(readers) < MaxThreads /\ CanSetup
    /\ \E ok \in BOOLEAN :
          LET s == IF monitoring THEN Sampling ELSE StartReading(Sampling, ok)
          IN /\ SetSampling(s)
             /\ last_call' = SensorCall("start_monitoring", "None", s.raised)
             /\ IF monitoring \/ s.raised
                THEN /\ unlocked' = s.unlocked
                     /\ UNCHANGED <<monitoring, monitoring_thread, weight_history,
                                    last_stable_weight, monitors>>
                ELSE /\ monitoring' = TRUE
                     /\ weight_history' = <<>>
                     /\ last_stable_weight' = ReadGrams(s, ok)
                     /\ monitors' = Append(monitors, "test")
                     /\ monitoring_thread' = Len(monitors) + 1
                     /\ unlocked' = s.unlocked \cup {"weight_history",
                                                     "last_stable_weight"}
    /\ UNCHANGED <<hx, tare_pc, was_running, event, step>>
    /\ UNCHANGED <<handlervars, screenvars>>

\* what stop_monitoring sets
StopMonitoring ==
    /\ monitoring' = FALSE
    /\ monitoring_thread' = 0

stop_monitoring ==
    /\ MainIdle
    /\ StopMonitoring
    /\ unlocked' = {}
    /\ last_call' = SensorCall("stop_monitoring", "None", FALSE)
    /\ step' = None
    /\ UNCHANGED <<hx, samplingvars, weight_history, last_stable_weight, monitors,
                   tare_pc, was_running, event>>
    /\ UNCHANGED <<handlervars, screenvars>>

\* cleanup: stop_monitoring, stop_reading, then the pins of the HX711 are released
cleanup ==
    /\ MainIdle
    /\ StopMonitoring
    /\ SetSampling(StopReading(Sampling))
    /\ unlocked' = {}
    /\ last_call' = SensorCall("cleanup", "None", FALSE)
    /\ step' = None
    /\ UNCHANGED <<hx, weight_history, last_stable_weight, monitors,
                   tare_pc, was_running, event>>
    /\ UNCHANGED <<handlervars, screenvars>>

\* tare, up to its call of setup_hx711: the sampling loop is stopped if it runs
TareStop ==
    /\ MainIdle
    /\ CanSetup
    /\ Len(readers) < MaxThreads
    /\ IF ~hx
       THEN /\ last_call' = SensorCall("tare", "False", FALSE)
            /\ UNCHANGED <<samplingvars, tare_pc, was_running>>
       ELSE /\ was_running' = is_running
            /\ SetSampling(IF is_running THEN StopReading(Sampling) ELSE Sampling)
            /\ tare_pc' = "setup"
            /\ UNCHANGED last_call
    /\ unlocked' = {}
    /\ UNCHANGED <<hx, monitorvars>>
    /\ UNCHANGED <<handlervars, screenvars>>

\* tare, its call of setup_hx711; a RuntimeError of it is caught and tare
\* returns False
TareSetup ==
    /\ tare_pc = "setup"
    /\ \E ok \in BOOLEAN :
          LET s == SetupHx711(Sampling, ok)
          IN /\ SetSampling(s)
             /\ unlocked' = s.unlocked
             /\ IF s.raised
                THEN /\ tare_pc' = "idle"
                     /\ last_call' = SensorCall("tare", "False", FALSE)
                ELSE /\ tare_pc' = "resume"
                     /\ UNCHANGED last_call
    /\ UNCHANGED <<hx, monitorvars, was_running>>
    /\ UNCHANGED <<handlervars, screenvars>>

\* tare, after setup_hx711: the sampling loop is started again if it ran, the
\* state of the monitor is reset, tare returns True
TareResume ==
    /\ tare_pc = "resume"
    /\ LET s == IF was_running THEN StartReading(Sampling, TRUE) ELSE Sampling
       IN SetSampling(s)
    /\ last_stable_weight' = 0
    /\ weight_history' = <<>>
    /\ unlocked' = {"last_stable_weight", "weight_history"}
    /\ tare_pc' = "idle"
    /\ last_call' = SensorCall("tare", "True", FALSE)
    /\ step' = None
    /\ UNCHANGED <<hx, monitoring, monitoring_thread, monitors, was_running, event>>
    /\ UNCHANGED <<handlervars, screenvars>>

\* _reading_loop of thread i, the test of its while
ReaderTest(i) ==
    /\ readers[i] = "test"
    /\ readers' = [readers EXCEPT ![i] = IF is_running THEN "body" ELSE "done"]
    /\ unlocked' = {}
    /\ UNCHANGED <<hx, baseline, is_running, reading_thread, weight_readings,
                   monitorvars, tare_pc, was_running, estimate, last_call>>
    /\ UNCHANGED <<handlervars, screenvars>>

\* _reading_loop of thread i, the body of its while: a direct reading, 0.0 when
\* the HX711 gave no values or raised, is put into the window under the lock
ReaderBody(i) ==
    /\ readers[i] = "body"
    /\ \E ok \in Readings :
          LET weight == DirectGrams(Sampling, ok)
          IN weight_readings' = Push(weight_readings, weight, max_readings)
    /\ readers' = [readers EXCEPT ![i] = "test"]
    /\ unlocked' = {}
    /\ UNCHANGED <<hx, baseline, is_running, reading_thread,
                   monitorvars, tare_pc, was_running, estimate, last_call>>
    /\ UNCHANGED <<handlervars, screenvars>>

_reading_loop == \E i \in DOMAIN readers : ReaderTest(i) \/ ReaderBody(i)

\* _monitoring_loop of thread i, the test of its while
MonitorTest(i) ==
    /\ monitors[i] = "test"
    /\ monitors' = [monitors EXCEPT ![i] = IF monitoring THEN "sample" ELSE "done"]
    /\ unlocked' = {}
    /\ UNCHANGED <<hx, samplingvars, monitoring, monitoring_thread, weight_history,
                   last_stable_weight, tare_pc, was_running, event, step,
                   last_call>>
    /\ UNCHANGED <<handlervars, screenvars>>

\* the values fed since the step of the estimate are counted up to here
FedCap == history_size + 2

\* _monitoring_loop of thread i: the estimate is read and put into the history,
\* then the length of the history is tested
MonitorSample(i) ==
    /\ monitors[i] = "sample"
    /\ \E ok \in Readings :
          LET current_weight == ReadGrams(Sampling, ok)
          IN weight_history' = Push(weight_history, current_weight, history_size)
    /\ monitors' = [monitors EXCEPT ![i] = IF Len(weight_history') = history_size
                                           THEN "detect" ELSE "test"]
    /\ step' = IF step = None \/ step.fed = FedCap THEN step
               ELSE [step EXCEPT !.fed = @ + 1]
    /\ unlocked' = {"weight_history"}
    /\ UNCHANGED <<hx, samplingvars, monitoring, monitoring_thread,
                   last_stable_weight, tare_pc, was_running, event,
                   last_call>>
    /\ UNCHANGED <<handlervars, screenvars>>

\* an event the monitor reports (it prints it)
Event(kind, item_weight) == [kind |-> kind, item_weight |-> item_weight]

\* a monitor that reports a change against the baseline it started with
DetectedKeepingBaseline(history, last_stable) ==
    LET avg_weight == SeqSum(history) \div Len(history)
    IN IF SeqMax(history) - SeqMin(history) < stable_threshold
       THEN IF avg_weight > last_stable + weight_threshold
            THEN [event |-> Event("added", avg_weight - last_stable),
                  last_stable_weight |-> last_stable]
            ELSE IF avg_weight < last_stable - weight_threshold
            THEN [event |-> Event("removed", last_stable - avg_weight),
                  last_stable_weight |-> last_stable]
            ELSE [event |-> None, last_stable_weight |-> last_stable]
       ELSE [event |-> None, last_stable_weight |-> last_stable]

\* the stability check of _monitoring_loop on a history that is not empty:
\* the event it reports, if any, and the stable weight it keeps
Detected(history, last_stable) ==
    LET min_weight == SeqMin(history)
        max_weight == SeqMax(history)
        avg_weight == SeqSum(history) \div Len(history)
    IN IF max_weight - min_weight < stable_threshold
       THEN IF avg_weight > last_stable + weight_threshold
            THEN [event |-> Event("added", avg_weight - last_stable),
                  last_stable_weight |-> avg_weight]
            ELSE IF avg_weight < last_stable - weight_threshold
            THEN [event |-> Event("removed", last_stable - avg_weight),
                  last_stable_weight |-> avg_weight]
            ELSE [event |-> None, last_stable_weight |-> last_stable]
       ELSE [event |-> None, last_stable_weight |-> last_stable]

\* _monitoring_loop of thread i, the stability check; min() of a history that
\* was emptied meanwhile raises ValueError, which nothing in the loop catches
MonitorDetect(i) ==
    /\ monitors[i] = "detect"
    /\ IF weight_history = <<>>
       THEN /\ monitors' = [monitors EXCEPT ![i] = "raised"]
            /\ UNCHANGED <<last_stable_weight, event, step>>
       ELSE LET d == Detected(weight_history, last_stable_weight)
            IN /\ monitors' = [monitors EXCEPT ![i] = "test"]
               /\ last_stable_weight' = d.last_stable_weight
               /\ event' = IF d.event = None THEN event ELSE d.event
               /\ step' = IF step = None \/ d.event = None
                             \/ Len(step.emitted) = MaxEmitted
                          THEN step
                          ELSE [step EXCEPT !.emitted = Append(@, d.event)]
    /\ unlocked' = {"weight_history", "last_stable_weight"}
    /\ UNCHANGED <<hx, samplingvars, monitoring, monitoring_thread, weight_history,
                   tare_pc, was_running, last_call>>
    /\ UNCHANGED <<handlervars, screenvars>>

_monitoring_loop ==
    \E i \in DOMAIN monitors : MonitorTest(i) \/ MonitorSample(i) \/ MonitorDetect(i)

\* the load changes and with it what read_weight returns: the estimate the
\* monitor is fed steps from a to b (while the sampling loop runs, the window
\* has filled with readings of the new load when the monitor reads next).
\* When the history holds H values a and the stable weight is a, the step and
\* what follows it is recorded
Feed ==
    /\ hx
    /\ \E b \in Estimates \ {estimate} :
          LET a == ReadGrams(Sampling, TRUE)
          IN /\ estimate' = b
             /\ weight_readings' = IF is_running
                                   THEN [n \in 1..max_readings |-> b]
                                   ELSE weight_readings
             /\ step' = IF /\ monitoring
                           /\ weight_history = [n \in 1..history_size |-> a]
                           /\ last_stable_weight = a
                        THEN [a |-> a, b |-> b, fed |-> 0, emitted |-> <<>>]
                        ELSE None
    /\ UNCHANGED <<hx, baseline, is_running, reading_thread, readers, monitoring,
                   monitoring_thread, weight_history, last_stable_weight, monitors,
                   tare_pc, was_running, event, unlocked, last_call>>
    /\ UNCHANGED <<handlervars, screenvars>>

\* the monitor and the estimates it is fed
NextMonitor ==
    \/ start_monitoring
    \/ _monitoring_loop
    \/ Feed

SpecMonitor == Init /\ [][NextMonitor]_vars

\* the sensor, its two loops and the calls of the main thread, on a load that
\* does not change
NextSensor ==
    \/ start_reading
    \/ stop_reading
    \/ start_monitoring
    \/ stop_monitoring
    \/ cleanup
    \/ TareStop
    \/ TareSetup
    \/ TareResume
    \/ _reading_loop
    \/ _monitoring_loop

SpecSensor == Init /\ [][NextSensor]_vars

\* The cart controller calls the handler as long as it runs and probes the
\* connection on a timer (Clock.schedule_interval(update_connection_status, 10.0)).
FairSpec == Spec /\ WF_vars(Next) /\ WF_vars(test_connection)

----------------------------------------------------------------------------
(* Properties *)

EndOps == {"complete", "abandon"}
SessionOps == {"add", "remove"} \cup EndOps

\* the latest call ended an Active session (it always attempts the local write)
EndedSession == last.op \in EndOps /\ last.local # "none"

HasLine(items, item_id) == \E i \in 1..Len(items) : items[i].itemId = item_id

RECURSIVE LineQuantity(_, _, _)
LineQuantity(items, item_id, n) ==
    IF n = 0 THEN 0
    ELSE (IF items[n].itemId = item_id THEN items[n].quantity ELSE 0)
         + LineQuantity(items, item_id, n - 1)

RECURSIVE SumLines(_, _)
SumLines(items, n) ==
    IF n = 0 THEN 0
    ELSE items[n].unitPrice * items[n].quantity + SumLines(items, n - 1)

\* C1: whenever a session is held in memory, so after every AddItem and
\* RemoveItem whatever the remote and local writes did, its totalCost is the sum
\* of unitPrice * quantity over its LineItems.
C1_TotalCostIsSum ==
    current_session # None =>
        current_session.totalCost
            = SumLines(current_session.items, Len(current_session.items))

\* C1 witness: a RemoveItem has left two LineItems with a positive total.
C1_Witness ==
    /\ last.op = "remove"
    /\ last.ret = TRUE
    /\ current_session # None
    /\ Len(current_session.items) = 2
    /\ current_session.totalCost > 0

\* C2: StartSession called while a session is Active fails: it returns no id
\* and leaves the in-memory session and all stored records unchanged.
C2_StartWhileActiveFails ==
    [][(last'.op = "start" /\ ~NoActiveSession) =>
        /\ last'.ret = None
        /\ UNCHANGED <<active_session_id, current_session, sessions,
                       offline_sessions>>]_vars

\* C3: with no Active session, AddItem, RemoveItem, CompleteSession and
\* AbandonSession return failure and change nothing: no in-memory state, no
\* remote write, no local write.
C3_NoActiveSessionRejected ==
    [][(NoActiveSession /\ last'.op \in SessionOps) =>
        /\ last'.ret = FALSE
        /\ last'.remote = "none"
        /\ last'.local = "none"
        /\ UNCHANGED <<db, online, offline_mode, active_session_id, current_session,
                       sessions, offline_sessions>>]_vars

\* C3 witness: AddItem was rejected after an earlier session had been ended.
C3_Witness ==
    /\ last.op = "add"
    /\ last.ret = FALSE
    /\ last.remote = "none"
    /\ last.local = "none"
    /\ NoActiveSession
    /\ sessions_started > 0

\* C4: a RemoveItem that takes an item's quantity to 0 or below removes its
\* LineItem, one that leaves a positive quantity keeps the difference, and a
\* RemoveItem of an item that is not in the session returns failure and leaves
\* items, totalCost and the stored records unchanged.
C4_RemoveToZeroThenFails ==
    [][(last'.op = "remove" /\ ~NoActiveSession) =>
        LET item_id == last'.args[1]
            items == current_session.items
            before == LineQuantity(items, item_id, Len(items))
            kept == current_session'.items
        IN IF ~HasLine(items, item_id)
           THEN /\ last'.ret = FALSE
                /\ last'.remote = "none"
                /\ last'.local = "none"
                /\ UNCHANGED <<current_session, sessions, offline_sessions>>
           ELSE LET quantity == last'.args[2]
                IN /\ before - quantity <= 0 => ~HasLine(kept, item_id)
                   /\ before - quantity > 0 =>
                        LineQuantity(kept, item_id, Len(kept)) = before - quantity
                   /\ \A i \in 1..Len(kept) : kept[i].quantity >= 1]_vars

\* C4 witness: in the first session an item was added and removed again, and a
\* further RemoveItem of it has been rejected.
C4_Witness ==
    /\ last.op = "remove"
    /\ last.ret = FALSE
    /\ last.remote = "none"
    /\ last.local = "none"
    /\ ~NoActiveSession
    /\ sessions_started = 1
    /\ items_added > 0
    /\ ~HasLine(current_session.items, last.args[1])

\* C5: a session that StartSession created without the remote store, and whose
\* CompleteSession does not reach the remote store either, is afterwards read
\* back (the remote read failing too) under the id StartSession returned, from
\* the local file, with the items and totalCost the in-memory session had at
\* completion and status completed; the local write itself is taken to work.
C5_OfflineRoundTrip ==
    [][(/\ last'.op = "complete"
        /\ ~NoActiveSession
        /\ started_id.kind = "offline-session"
        /\ last'.remote # "ok"
        /\ last'.local = "ok") =>
        LET record == get_session(started_id, FALSE)'
        IN /\ record # None
           /\ record.sessionId = started_id
           /\ record.items = current_session.items
           /\ record.totalCost = current_session.totalCost
           /\ record.status = "completed"]_vars

\* C5 witness: an offline session started in a later second than the handler
\* was constructed in has been completed after two AddItem calls, and its file
\* holds the additions.
C5_Witness ==
    /\ last.op = "complete"
    /\ last.remote = "none"
    /\ last.local = "ok"
    /\ started_id = OfflineId(1)
    /\ items_added = 2
    /\ sessions_started = 1
    /\ started_id \in DOMAIN offline_sessions
    /\ offline_sessions[started_id] # Corrupt
    /\ offline_sessions[started_id].status = "completed"
    /\ offline_sessions[started_id].totalCost > 0

\* C6: AddItem and RemoveItem return success whenever the mutation was written
\* to the remote store or to the local store.
C6_SuccessWhenPersisted ==
    (last.op \in {"add", "remove"} /\ (last.remote = "ok" \/ last.local = "ok"))
        => last.ret = TRUE

C8_ClearedThenRestart ==
    [][/\ (last'.op \in EndOps /\ ~NoActiveSession) =>
            /\ get_active_session' = None
            /\ active_session_id' = None
       /\ (last'.op = "start" /\ EndedSession) =>
            /\ last'.ret # None
            /\ active_session_id' = last'.ret
            /\ get_active_session' # None
            /\ get_active_session'.sessionId = last'.ret
            /\ get_active_session'.status = "active"
            /\ get_active_session'.items = <<>>
            /\ get_active_session'.totalCost = 0]_vars

\* C8 witness: a second session has been started after the first, which held
\* an item, was ended, and nothing of the first is in it.
C8_Witness ==
    /\ last.op = "start"
    /\ sessions_started = 2
    /\ items_added = 1
    /\ current_session # None
    /\ current_session.items = <<>>
    /\ \E id \in DOMAIN sessions :
        /\ id # active_session_id
        /\ sessions[id].status = "completed"
        /\ Len(sessions[id].items) = 1

\* the ids under which a record with status active is held, in memory, in the
\* remote store or in a local file
ActiveIds ==
    {id \in DOMAIN sessions : sessions[id].status = "active"}
    \cup {id \in DOMAIN offline_sessions :
            offline_sessions[id] # Corrupt /\ offline_sessions[id].status = "active"}
    \cup (IF current_session # None /\ current_session.status = "active"
          THEN {active_session_id} ELSE {})

\* C9: no two session records with distinct ids have status active at once.
C9_AtMostOneActive == Cardinality(ActiveIds) <= 1

\* C10: a session operation whose remote write failed or was not attempted and
\* whose local write failed reports failure to the caller.
C10_HardFailureReported ==
    (last.op \in SessionOps \cup {"start"} /\ last.remote # "ok" /\ last.local = "failed")
        => IF last.op = "start" THEN last.ret = None ELSE last.ret = FALSE

\* a call of start_shopping_session that took the offline branch or the fallback
StartedOffline == last'.op = "start" /\ started_id'.kind = "offline-session"

\* C11: two sessions started offline get distinct ids, the timestamp part growing
\* from one offline start to the next, so that the file of an earlier session is
\* not overwritten by a later session.
C11_OfflineIdsDistinct ==
    [][StartedOffline =>
          /\ started_id' \notin DOMAIN offline_sessions
          /\ \A session_id \in DOMAIN offline_sessions :
                 session_id.kind = "offline-session" => session_id.n < started_id'.n]_vars

\* C12: after start_shopping_session has returned, the local store holds a record
\* under the returned id with status active, also after a remote creation (the
\* case stated here: the start whose remote creation succeeded).
C12_StartMirroredLocally ==
    [][(last'.op = "start" /\ last'.remote = "ok") =>
          /\ started_id' \in DOMAIN offline_sessions'
          /\ offline_sessions'[started_id'] # Corrupt
          /\ offline_sessions'[started_id'].status = "active"]_vars

\* the documents and files that a step has left as they were
KeptInStore(store, stored, session_id) ==
    session_id \in DOMAIN store /\ stored[session_id] = store[session_id]

\* a step writes no document and no file other than those of session_id
WritesKeyedBy(session_id) ==
    /\ \A k \in DOMAIN sessions' \ {session_id} : KeptInStore(sessions, sessions', k)
    /\ \A k \in DOMAIN offline_sessions' \ {session_id} :
           KeptInStore(offline_sessions, offline_sessions', k)

\* C13: the id that start_shopping_session returned is the id of the session in
\* memory, and every remote or local write of add, remove, complete and abandon
\* goes to the document or file of that id, whatever the connection has done
\* since the start.
C13_OneSessionId ==
    [][last'.op \in SessionOps =>
          /\ active_session_id # None => active_session_id = started_id
          /\ WritesKeyedBy(started_id)]_vars

\* C13 witness: a session started without connection, the connection restored,
\* and an AddItem whose remote update failed kept in the file of the offline id.
C13_Witness ==
    /\ started_id.kind = "offline-session"
    /\ online /\ ~offline_mode
    /\ last.op = "add" /\ last.remote = "failed" /\ last.local = "ok"
    /\ DOMAIN offline_sessions = {started_id}
    /\ offline_sessions[started_id].items # <<>>

\* the quantity a session holds of an item, 0 when it has no line for it
QuantityOf(session, item_id) == LineQuantity(session.items, item_id, Len(session.items))

\* the quantity of the item after add or remove of quantity on a session holding held
QuantityAfter(op, held, quantity) ==
    IF op = "add" THEN held + quantity
    ELSE IF held - quantity > 0 THEN held - quantity ELSE 0

\* C15: once add_item_to_session or remove_item_from_session has passed its
\* checks, get_active_session shows the change: the item's quantity is the old one
\* plus or minus the argument, the other items are as before and totalCost is
\* the sum over the lines, whether the remote write, the local write or both
\* failed.
C15_MutationKeptInMemory ==
    [][(last'.op \in {"add", "remove"} /\ Len(last'.args) = 2) =>
          /\ get_active_session' # None
          /\ \A item_id \in Barcodes :
                 QuantityOf(get_active_session', item_id)
                     = IF item_id = last'.args[1]
                       THEN QuantityAfter(last'.op, QuantityOf(current_session, item_id),
                                          last'.args[2])
                       ELSE QuantityOf(current_session, item_id)
          /\ get_active_session'.totalCost
                 = SumLines(get_active_session'.items, Len(get_active_session'.items))]_vars

\* C15 witness: an AddItem whose remote update and local write both failed, on a
\* session that already had a file, is in the session get_active_session returns.
C15_Witness ==
    /\ last.op = "add" /\ Len(last.args) = 2
    /\ last.remote = "failed" /\ last.local = "failed"
    /\ active_session_id \in DOMAIN offline_sessions
    /\ offline_sessions[active_session_id] # Corrupt
    /\ offline_sessions[active_session_id].items = <<>>
    /\ QuantityOf(get_active_session, last.args[1]) = last.args[2]

\* the session ids of the model
SessionIds ==
    {OfflineId(t) : t \in 0..MaxClock} \cup {AutoId(n) : n \in 1..MaxSessions}

\* the connection is up: probes succeed and calls take the remote path
Connected == db /\ online /\ ~offline_mode

\* the local store holds the terminated session
EndedLocally(session_id) ==
    /\ session_id \in DOMAIN offline_sessions
    /\ offline_sessions[session_id] # Corrupt
    /\ offline_sessions[session_id].status \in {"completed", "abandoned"}

\* the remote store holds the session as the local store has it
HeldRemotely(session_id) ==
    /\ session_id \in DOMAIN sessions
    /\ session_id \in DOMAIN offline_sessions
    /\ offline_sessions[session_id] # Corrupt
    /\ sessions[session_id].items = offline_sessions[session_id].items
    /\ sessions[session_id].totalCost = offline_sessions[session_id].totalCost
    /\ sessions[session_id].status = offline_sessions[session_id].status

\* C14: when the connection comes back and stays, a session that was terminated
\* with its record in the local store is in the end held by the remote store
\* with its final items, totalCost and status.
C14_OfflineSessionReconciled ==
    <>[]Connected =>
        \A session_id \in SessionIds :
            [](EndedLocally(session_id) => <>HeldRemotely(session_id))

\* the entries of a sequence or of the files of a directory
Range(f) == {f[x] : x \in DOMAIN f}

\* a call of log_cart_activity that has written its entry to a local file
Deferred == last'.op = "log" /\ last'.local = "ok"

\* C16: every event logged while the remote append is not available becomes a
\* record of its own in offline_logs: the call adds one file and leaves the
\* files of earlier events as they were, also within one clock second.
C16_OneRecordPerEvent ==
    [][Deferred =>
          /\ Cardinality(DOMAIN offline_logs') = Cardinality(DOMAIN offline_logs) + 1
          /\ \A f \in DOMAIN offline_logs :
                 f \in DOMAIN offline_logs' /\ offline_logs'[f] = offline_logs[f]]_vars

\* C17: after n events have been logged without connection and nothing has been
\* replayed yet, a sync_offline_logs with the connection up in which the remote
\* store takes every append returns (n, 0), empties offline_logs and leaves the
\* n events in cartLogs.
C17_ReplayAll ==
    [][(/\ last'.op = "sync"
        /\ db /\ ~offline_mode
        /\ cartLogs = <<>>
        /\ \A d \in deferred : d.remote = "none"
        /\ last'.ret[2] = 0) =>
          /\ last'.ret = <<Cardinality(deferred), 0>>
          /\ DOMAIN offline_logs' = {}
          /\ Range(cartLogs') = {d.log_entry : d \in deferred}]_vars

\* a call of sync_offline_logs that found files to replay
Replaying == last'.op = "sync" /\ db /\ ~offline_mode /\ DOMAIN offline_logs # {}

C19_ReplayOnReconnect ==
    [][(/\ last'.op = "test_connection"
        /\ last'.ret = TRUE
        /\ offline_mode
        /\ DOMAIN offline_logs # {}) =>
          /\ DOMAIN offline_logs' = {}
          /\ Range(offline_logs) \subseteq Range(cartLogs')]_vars

\* C20: log_cart_activity returns a boolean in every case: True exactly when
\* the entry was appended to cartLogs, False when it was written to a local
\* file and when nothing could be written; it leaves the connection flags and
\* the session in memory as they were, also when the remote append failed.
C20_LogNeverFailsCaller ==
    [][last'.op = "log" =>
          /\ last'.ret \in BOOLEAN
          /\ last'.ret = TRUE <=> last'.remote = "ok"
          /\ last'.ret = TRUE <=> Len(cartLogs') = Len(cartLogs) + 1
          /\ last'.ret = FALSE => cartLogs' = cartLogs
          /\ last'.local = "ok" =>
                 /\ last'.ret = FALSE
                 /\ LogEntry("scan", events_logged') \in Range(offline_logs')
                    \/ LogEntry("weight_change", events_logged') \in Range(offline_logs')
          /\ UNCHANGED <<db, online, offline_mode, active_session_id,
                         current_session>>]_vars

\* C20 witness: with a session in memory and the connection flags up, the
\* remote append failed, the entry went to a local file and the call returned
\* False.
C20_Witness ==
    /\ last.op = "log"
    /\ last.ret = FALSE
    /\ last.remote = "failed"
    /\ last.local = "ok"
    /\ online /\ ~offline_mode
    /\ active_session_id # None
    /\ current_session # None
    /\ DOMAIN offline_logs # {}

\* C21: test_connection leaves the connection flags as its result says: online
\* set and offline_mode cleared after True, offline_mode set after False, also
\* for a probe after switch_to_offline_mode and for a handler without a client.
C21_ProbeSetsState ==
    [][last'.op = "test_connection" =>
          /\ last'.ret = TRUE => (online' /\ ~offline_mode')
          /\ last'.ret = FALSE => (offline_mode' /\ ~Connected')
          /\ ~db => last'.ret = FALSE]_vars

\* C21 witness: a probe has returned True on a handler that had started its
\* session without connection.
C21_Witness ==
    /\ last.op = "test_connection"
    /\ last.ret = TRUE
    /\ Connected
    /\ active_session_id # None
    /\ active_session_id.kind = "offline-session"

\* the operations that may change the connection flags
ConnectivityOps == {"test_connection", "switch_to_offline_mode"}

\* C22: online and offline_mode change only in test_connection and in
\* switch_to_offline_mode; the session operations, with the catalog lookup of
\* add_item_to_session, leave them as they were also when a remote call fails.
C22_StateChangesOnlyInProbe ==
    [][last'.op \notin ConnectivityOps => UNCHANGED <<online, offline_mode>>]_vars

Firing == checks # <<>> /\ checks' = Tail(checks)

\* C24: the check made after an item of weight w > 0 was added shows the warning,
\* with the expected change w and the actual change (the scale now minus the scale
\* before the add), exactly when the two differ by more than 0.1 kg.
C24_MismatchBeyondTolerance ==
    [][(Firing /\ Head(checks).by = "add") =>
          LET expectedChange == Head(checks).expected_change
              actualChange == scale - Head(checks).previous_weight
          IN /\ checked'.expected_change = expectedChange
             /\ checked'.actual_change = actualChange
             /\ checked'.warning
                    <=> Abs(actualChange - expectedChange) > DefaultThreshold]_vars

\* C30: a scheduled check compares the scale with the weight recorded before its
\* own change and with the change expected of its own item, also when another
\* item was removed or added before it is made.
C30_CheckUsesOwnValues ==
    [][Firing =>
          /\ checked'.previous_weight = Head(checks).previous_weight
          /\ checked'.expected_change = Head(checks).expected_change]_vars

\* the values fed since the step that the stability check has been run on
Processed ==
    IF \E i \in DOMAIN monitors : monitors[i] = "detect"
    THEN step.fed - 1
    ELSE step.fed

\* C23: when the estimate fed to the monitor, constant at a with the history
\* full of a and the stable weight a, steps to b more than 50 g away and stays
\* there, the monitor reports nothing and keeps the stable weight a while the
\* history mixes values from before and after the step; at the first check of
\* a history of H values b it reports one event, 'added' for b > a and
\* 'removed' for b < a, of magnitude |b - a|, makes b the stable weight, and
\* reports nothing more
C23_OneEventPerStep ==
    (step # None /\ Abs(step.b - step.a) > weight_threshold) =>
        LET kind == IF step.b > step.a THEN "added" ELSE "removed"
        IN /\ Processed < history_size =>
                  /\ step.emitted = <<>>
                  /\ last_stable_weight = step.a
           /\ Processed >= history_size =>
                  /\ step.emitted = <<Event(kind, Abs(step.b - step.a))>>
                  /\ last_stable_weight = step.b

C23_Witness ==
    /\ step # None
    /\ step.b > step.a + weight_threshold
    /\ step.fed = FedCap
    /\ step.emitted # <<>>
    /\ \A i \in DOMAIN monitors : monitors[i] = "test"

\* C25: from the call of tare to its return the sampling loop that was running
\* stays running, and when tare returns True a baseline has been taken and the
\* window of samples is empty
C25_TareKeepsSampling ==
    [][/\ (tare_pc' # "idle" /\ was_running') => is_running'
       /\ (tare_pc # "idle" /\ tare_pc' = "idle" /\ last_call'.ret = "True") =>
              (baseline' > 0 /\ weight_readings' = <<>>)]_vars

\* a loop of the sensor has been started and has not ended
LoopLive ==
    \/ \E i \in DOMAIN readers : readers[i] \notin {"done", "raised"}
    \/ \E i \in DOMAIN monitors : monitors[i] \notin {"done", "raised"}

\* C26: while a loop of the sensor is live, no step of the sampling loop, of
\* the monitoring loop or of tare reads or writes weight_readings,
\* weight_history or last_stable_weight without holding the lock of the sensor
C26_SharedStateUnderLock ==
    [][(/\ LoopLive
        /\ \/ _reading_loop
           \/ _monitoring_loop
           \/ TareStop
           \/ TareSetup
           \/ TareResume) => unlocked' = {}]_vars

\* where a loop is that has ended
Ended == {"done", "raised"}

\* C27: the sampling loop and the monitoring loop the sensor holds a handle of
\* end only when their run flag is cleared; an exception in an iteration does
\* not end them
C27_LoopEndsOnlyOnFlag ==
    [][/\ \A i \in DOMAIN readers :
              (i = reading_thread /\ readers[i] \notin Ended /\ readers'[i] \in Ended)
                  => ~is_running
       /\ \A i \in DOMAIN monitors :
              (i = monitoring_thread /\ monitors[i] \notin Ended
                                      /\ monitors'[i] \in Ended)
                  => ~monitoring]_vars

\* the latest call of the main thread was op, and it has returned
Returned(op) == last_call.op = op /\ tare_pc = "idle"

\* a stop on a stopped sensor changes nothing, and a loop that tests its flag
\* while it is false ends, having finished the iteration it was in
StopStep ==
    /\ (~is_running /\ reading_thread = 0
          /\ last_call'.op \in {"stop_reading", "cleanup"}
          /\ (stop_reading \/ cleanup)) => UNCHANGED samplingvars
    /\ (~monitoring /\ monitoring_thread = 0
          /\ last_call'.op \in {"stop_monitoring", "cleanup"}
          /\ (stop_monitoring \/ cleanup)) =>
           UNCHANGED <<monitoring, monitoring_thread, weight_history,
                       last_stable_weight, monitors>>
    /\ \A i \in DOMAIN readers :
           /\ (readers[i] = "test" /\ readers'[i] # "test" /\ ~is_running) =>
                  readers'[i] = "done"
           /\ (readers[i] = "body" /\ readers'[i] # "body") =>
                  readers'[i] = "test"
    /\ \A i \in DOMAIN monitors :
           (monitors[i] = "test" /\ monitors'[i] # "test" /\ ~monitoring) =>
               monitors'[i] = "done"

Appended == (Len(cartLogs) + 1)..Len(cartLogs')

\* C31: sync_offline_logs appends the stored entries to the remote log in the
\* order in which they were logged: of two entries appended by one replay, the
\* one logged first comes first.
C31_ReplayInArrivalOrder ==
    [][last'.op = "sync" =>
          \A i, j \in Appended :
              i < j => cartLogs'[i].timestamp < cartLogs'[j].timestamp]_vars

\* no two lines of the session are of one item, and no line is empty
OneLinePerItem(items) ==
    /\ \A i, j \in 1..Len(items) : items[i].itemId = items[j].itemId => i = j
    /\ \A i \in 1..Len(items) : items[i].quantity >= 1

\* the call has passed its checks and changed the quantity of an item
Mutated == last'.op \in {"add", "remove"} /\ Len(last'.args) = 2

\* C32: the session holds at most one line per item and every line has a
\* quantity of at least 1; an add raises the quantity of the item's line by its
\* argument, or makes the line, and a remove lowers it by its argument, or drops
\* the line when nothing is left, the lines of the other items staying as they were.
C32_AddItemMerges ==
    /\ [](current_session # None => OneLinePerItem(current_session.items))
    /\ [][Mutated =>
            LET item_id == last'.args[1]
                quantity == last'.args[2]
                held == QuantityOf(current_session, item_id)
            IN /\ QuantityOf(current_session', item_id)
                      = QuantityAfter(last'.op, held, quantity)
               /\ HasLine(current_session'.items, item_id)
                      <=> QuantityAfter(last'.op, held, quantity) >= 1
               /\ \A other \in Barcodes \ {item_id} :
                      QuantityOf(current_session', other)
                          = QuantityOf(current_session, other)]_vars

\* C32 witness: two adds of one item, of quantities that sum to 3, have left one
\* line of quantity 3.
C32_Witness ==
    /\ last.op = "add" /\ items_added = 2
    /\ current_session # None
    /\ Len(current_session.items) = 1
    /\ current_session.items[1].quantity = 3

\* C33: switch_to_offline_mode called on a connected handler writes the status
\* 'offline' to the cart's remote document, and a probe that succeeds on a
\* handler in offline mode leaves the status 'online'.
C33_StatusFollowsMode ==
    [][/\ (last'.op = "switch_to_offline_mode" /\ Connected) => carts' = "offline"
       /\ (last'.op = "test_connection" /\ db /\ offline_mode /\ ~offline_mode')
              => carts' = "online"]_vars

\* C34: save_session returns a session id whatever happens: when a step of the
\* remote path fails, be it obtaining the document reference or writing the
\* document, it returns an offline-session id after writing the session to
\* the local store, also for a session_data that has an items list.
C34_SaveAlwaysReturnsId ==
    [][last'.op = "save_session" =>
          /\ last'.ret.kind \in {"auto", "offline-session"}
          /\ last'.remote = "failed" =>
                 /\ last'.ret.kind = "offline-session"
                 /\ last'.local # "none"]_vars

\* the record has the lines of the cart and their sum as totalCost
SavedAsGiven(record, session_data) ==
    /\ record.items = ConvertItems(session_data)
    /\ record.totalCost = TotalCost(ConvertItems(session_data))

\* C35: for a session_data made by get_session_data, the record save_session
\* persists holds the same items and the totalCost that is the sum of
\* price * quantity over them, whether it goes to the remote store or, on the
\* offline path, to the local store.
C35_SameRecordOnBothPaths ==
    [][(/\ last'.op = "save_session"
        /\ "items" \in last'.args.keys
        /\ last'.ret # UnboundLocalError) =>
          /\ last'.remote = "ok" => SavedAsGiven(sessions'[last'.ret], last'.args)
          /\ last'.local = "ok" =>
                 SavedAsGiven(offline_sessions'[last'.ret], last'.args)]_vars

\* the threads of the sampling loop that have been started and have not ended
LiveReaders == {i \in DOMAIN readers : readers[i] \notin Ended}

\* C36: at most one thread of the sampling loop is live at any time, whatever
\* the order of start_reading, stop_reading and tare, also when stop_reading
\* returns before the loop has seen the cleared flag and start_reading sets the
\* flag again.
C36_OneSamplingThread == Cardinality(LiveReaders) <= 1

\* the status an operation that ends a session gives it
TerminalStatus(op) == IF op = "complete" THEN "completed" ELSE "abandoned"

\* the local write of the call failed because the directory could not be made or
\* the file not opened: the session could be written as JSON, or no file of the
\* session exists
DiskRefused ==
    /\ last'.local = "failed"
    /\ \/ JsonSerializable(current_session)
       \/ active_session_id \notin DOMAIN offline_sessions'

\* C37: after complete_shopping_session or abandon_shopping_session on an
\* Active session, whether the remote update succeeded, failed or was not made,
\* and whether the session was created remotely or offline, the local store
\* holds under the session's id a record with the terminal status, an endedAt
\* that is set, and the items and totalCost the session had in memory.
C37_EndedSessionStoredLocally ==
    [][(last'.op \in EndOps /\ ~NoActiveSession /\ ~DiskRefused) =>
          /\ active_session_id \in DOMAIN offline_sessions'
          /\ LET record == offline_sessions'[active_session_id]
             IN /\ record # Corrupt
                /\ record.status = TerminalStatus(last'.op)
                /\ record.endedAt # "null"
                /\ record.items = current_session.items
                /\ record.totalCost = current_session.totalCost]_vars

\* the session the handler holds is a document of the remote store
HeldInRemoteStore == ~NoActiveSession /\ active_session_id \in DOMAIN sessions

\* C38: after an add_item_to_session or remove_item_from_session whose remote
\* update succeeded, the remote document of the session has the items and the
\* totalCost of the session in memory, also when earlier updates of the session
\* failed remotely and went to the local store only.
C38_RemoteEqualsMemory ==
    (last.op \in {"add", "remove"} /\ last.remote = "ok" /\ HeldInRemoteStore) =>
        /\ sessions[active_session_id].items = current_session.items
        /\ sessions[active_session_id].totalCost = current_session.totalCost

\* C38 witness: the second change of a session's items has reached the remote
\* store after the first had failed remotely and been written to a local file.
C38_Witness ==
    /\ last.op \in {"add", "remove"} /\ last.remote = "ok"
    /\ HeldInRemoteStore
    /\ active_session_id \in DOMAIN offline_sessions
    /\ Len(current_session.items) = 2
    /\ sessions[active_session_id].items = current_session.items

\* C39: active_session_id is None exactly when current_session is None, and a
\* session that is held has active_session_id as its sessionId, the status
\* active and no endedAt, after every operation and on every path of
\* start_shopping_session.
C39_IdAndSessionAgree ==
    /\ active_session_id = None <=> current_session = None
    /\ current_session # None =>
           /\ current_session.sessionId = active_session_id
           /\ current_session.status = "active"
           /\ current_session.endedAt = "null"

\* C39 witness: a start whose remote creation failed has left a session under
\* an offline id, after an earlier session was ended.
C39_Witness ==
    /\ last.op = "start" /\ last.remote = "failed"
    /\ sessions_started = 2
    /\ active_session_id.kind = "offline-session"
    /\ current_session # None
    /\ current_session.sessionId = active_session_id

\* C40: a handler that has a client and is not in offline mode has online set,
\* so the guard 'not db or offline_mode' and the guard 'online and not
\* offline_mode and db' choose the remote path in the same states.
C40_GuardsAgree ==
    /\ (db /\ ~offline_mode) => online
    /\ ~(~db \/ offline_mode) <=> UseRemote(offline_mode)

\* C40 witness: a handler constructed with a client whose first read failed has
\* left offline mode by a probe, and a session was started remotely after it.
C40_Witness ==
    /\ db /\ ~offline_mode /\ online
    /\ carts = "online"
    /\ last.op = "start" /\ last.remote = "ok"
    /\ \E session_id \in DOMAIN offline_sessions : session_id.kind = "offline-session"

====
